---------------------------- MODULE Spec2Model ----------------------------
(***************************************************************************)
(* Pharmacy Management System: the medication store, the inventory journal *)
(* (InventoryTransaction) and the sales collection, driven by concurrent   *)
(* request handlers of the Flask API (backend/app.py) through the          *)
(* repositories of backend/database/operations.py.                         *)
(*                                                                         *)
(* Every database operation (a query, a save, a delete) is one atomic      *)
(* step; a handler that performs several of them is a sequence of steps    *)
(* that other handlers may interleave with.                                *)
(***************************************************************************)
EXTENDS Integers, Sequences, FiniteSets

(* ------------------------------ bounds -------------------------------- *)

\* Largest stock level a request supplies (POST and PUT /api/medications).
MaxQty == 2

\* Number of requests served in one behaviour.
MaxRequests == 2

\* Medication ids; ids are ObjectIds, never reused once taken.
MedIds == {"m1", "m2"}

\* Concurrent request handlers (threads / gunicorn workers).
Workers == {"w1", "w2"}

\* Quantities sold per line item, and quantity_change values of direct
\* update_stock calls.
SoldQuantities == {1, 2}

Changes == {-2, -1, 0, 1, 2}

\* The (transaction_type, user_id well-formed) pairs callers of update_stock
\* pass; "transfer" is not a declared choice of transaction_type.
CallerInputs == {<<"sale", TRUE>>, <<"transfer", TRUE>>, <<"sale", FALSE>>}

(* --------------------------- program constants ------------------------ *)

\* InventoryTransaction.transaction_type choices.
TransactionTypes == {"purchase", "sale", "adjustment", "return"}

\* Medication.quantity_in_stock = IntField(min_value=0).
MinQuantity == 0

\* reference_id of an update_stock call made without one (None).
NoRef == 0

\* Medication.reorder_level = IntField(default=10).
DefaultReorderLevel == 10

\* The reorder_level a POST /api/medications body carries; one without the
\* field gets the default.
ReorderLevels == {1, DefaultReorderLevel}

VARIABLES
    medications,            \* ids of the documents in the medications collection
    partial,                \* stored documents lacking the required fields (re-created by an upsert)
    noQuantity,             \* stored documents without a quantity_in_stock field
    quantity_in_stock,      \* Medication.quantity_in_stock of each document
    taken,                  \* medication ids ever assigned
    inventory_transactions, \* the inventory_transactions collection, in insertion order
    sales,                  \* the sales collection
    call,                   \* per handler: the request being served and its local variables
    nreq,                   \* requests accepted so far (also the source of sale ids)
    response,               \* the response most recently returned, with what its request did
    supplied,               \* per medication: the quantity supplied when it was created
    reorder_level,          \* Medication.reorder_level of each document that stores one
    users,                  \* the users collection, in insertion order
    documents,              \* number of documents in a collection that is listed page by page
    dated_sales,            \* the stored sales a report aggregates (date, amount)
    reply                   \* the response of the read endpoint called last

vars == <<medications, partial, noQuantity, quantity_in_stock, taken,
          inventory_transactions, sales, call, nreq, response, supplied,
          reorder_level, users, documents, dated_sales, reply>>

store == <<medications, partial, noQuantity, quantity_in_stock, taken, supplied,
           reorder_level>>

\* What the user, listing and report endpoints work on; the stock handlers
\* leave it alone.
views == <<users, documents, dated_sales, reply>>

\* What the stock handlers work on; the user, listing and report endpoints
\* leave it alone.
stock == <<store, inventory_transactions, sales, call, nreq, response>>

\* The medications whose document holds a quantity_in_stock.
Stocked == medications \ noQuantity

(* ------------------------------ requests ------------------------------ *)

\* One line item of a sale request: {medication, quantity}.
Lines == [medication : MedIds, quantity : SoldQuantities]

\* Line items selling a single unit.
UnitLines == {l \in Lines : l.quantity = 1}

\* The items of a sale request: none, one line of any quantity, or two
\* single-unit lines.
ItemLists ==
    {<<>>} \cup {<<a>> : a \in Lines} \cup {<<a, b>> : a \in UnitLines, b \in UnitLines}

NoCall ==
    [op |-> "none", pc |-> "idle", med |-> "m1", arg |-> 0, ttype |-> "sale",
     uid_ok |-> TRUE, items |-> <<>>, i |-> 0, sale_id |-> 0, body |-> "valid",
     previous_quantity |-> 0, new_quantity |-> 0,
     result |-> FALSE, rpartial |-> FALSE, changed |-> FALSE,
     calls |-> 0, saved |-> 0, logged |-> 0, failed |-> 0, short |-> 0]

Idle(w) == call[w].pc = "idle"

\* A request goes to an idle handler. The handlers run the same code, so
\* the choice among idle ones is immaterial: the first takes it.
Accepting(w) ==
    /\ Idle(w)
    /\ nreq < MaxRequests
    /\ (w = "w1" \/ ~Idle("w1"))

\* What is kept of a finished request: the operation, the HTTP status,
\* update_stock's return value, and the request's account of itself: the
\* update_stock calls it made (calls), the medication saves (saved) and
\* journal saves (logged) it performed, the calls that returned False
\* (failed) and those that found the stock insufficient (short).
Summary(c, code) ==
    [op |-> c.op, status |-> code, result |-> c.result, sale_id |-> c.sale_id,
     body |-> c.body,
     calls |-> c.calls, saved |-> c.saved, logged |-> c.logged,
     failed |-> c.failed, short |-> c.short]

NoResponse == Summary(NoCall, 0)

\* Handler w answers with status code: the request is over.
Respond(w, c, code) ==
    /\ call' = [call EXCEPT ![w] = NoCall]
    /\ response' = Summary(c, code)

\* Handler w goes on with call record c.
Continue(w, c) ==
    /\ call' = [call EXCEPT ![w] = c]
    /\ UNCHANGED response

(* ------------------------- medications: CRUD -------------------------- *)

\* A save whose update carries no _id filter: the quantity is written to
\* every stored medication.
SaveQuantityAll(m, setq, q) ==
    /\ medications' = medications \cup {m}
    /\ partial' = IF m \in medications THEN partial ELSE partial \cup {m}
    /\ noQuantity' = IF setq THEN {}
                     ELSE IF m \in medications THEN noQuantity
                     ELSE noQuantity \cup {m}
    /\ quantity_in_stock' =
           IF setq THEN [x \in MedIds |-> IF x \in medications \cup {m} THEN q
                                         ELSE quantity_in_stock[x]]
           ELSE quantity_in_stock
    /\ supplied' = IF m \in medications THEN supplied
                   ELSE [supplied EXCEPT ![m] = IF setq THEN q ELSE 0]
    /\ UNCHANGED <<taken, reorder_level>>

\* The store after a document save() that $sets quantity_in_stock (when
\* setq) and updated_at on document m with upsert: an existing document is
\* updated in place, a vanished one is re-created holding only the fields
\* written (reorder_level is not among them).
SaveQuantity(m, setq, q) ==
    /\ medications' = medications \cup {m}
    /\ partial' = IF m \in medications THEN partial ELSE partial \cup {m}
    /\ noQuantity' = IF setq THEN noQuantity \ {m}
                     ELSE IF m \in medications THEN noQuantity
                     ELSE noQuantity \cup {m}
    /\ quantity_in_stock' = IF setq THEN [quantity_in_stock EXCEPT ![m] = q]
                            ELSE quantity_in_stock
    /\ supplied' = IF m \in medications THEN supplied
                   ELSE [supplied EXCEPT ![m] = IF setq THEN q ELSE 0]
    /\ UNCHANGED <<taken, reorder_level>>

\* POST /api/medications: validate and insert one document.
CreateMedication(w) ==
    /\ Accepting(w)
    /\ \E m \in MedIds \ taken, q \in -1..MaxQty, r \in ReorderLevels :
          LET c == [NoCall EXCEPT !.op = "create_medication", !.med = m, !.arg = q]
          IN IF q < MinQuantity
             THEN /\ Respond(w, c, 400)
                  /\ UNCHANGED store
             ELSE /\ medications' = medications \cup {m}
                  /\ taken' = taken \cup {m}
                  /\ quantity_in_stock' = [quantity_in_stock EXCEPT ![m] = q]
                  /\ supplied' = [supplied EXCEPT ![m] = q]
                  /\ reorder_level' = [reorder_level EXCEPT ![m] = r]
                  /\ UNCHANGED <<partial, noQuantity>>
                  /\ Respond(w, [c EXCEPT !.saved = 1], 201)
    /\ nreq' = nreq + 1
    /\ UNCHANGED <<inventory_transactions, sales>>
    /\ UNCHANGED views

\* PUT /api/medications/<id>, BaseRepository.update up to the query: the
\* body carries quantity_in_stock = q; setattr marks the field changed only
\* when q differs from the value read.
UpdateMedicationRead(w) ==
    /\ Accepting(w)
    /\ \E m \in MedIds, q \in -1..MaxQty :
          LET c == [NoCall EXCEPT !.op = "update_medication", !.med = m, !.arg = q]
          IN IF m \notin medications
             THEN Respond(w, c, 404)
             ELSE Continue(w, [c EXCEPT !.pc = "um_save",
                                        !.rpartial = (m \in partial),
                                        !.changed = (m \in noQuantity
                                                     \/ quantity_in_stock[m] # q)])
    /\ nreq' = nreq + 1
    /\ UNCHANGED <<store, inventory_transactions, sales>>
    /\ UNCHANGED views

\* instance.save() validates the whole document before it writes: the
\* required fields must be there and quantity_in_stock be at least
\* min_value (ValidatesAnything: a save(validate=False)).
ValidatesAnything(c) == TRUE

Validates(c) == ~c.rpartial /\ c.arg >= MinQuantity

\* BaseRepository.update, instance.save(): validation of the whole
\* document, then the write of the changed fields.
UpdateMedicationSave(w) ==
    LET c == call[w] IN
    /\ c.pc = "um_save"
    /\ IF ~Validates(c)
       THEN /\ Respond(w, c, 400)
            /\ UNCHANGED store
       ELSE /\ SaveQuantity(c.med, c.changed, c.arg)
            /\ Respond(w, [c EXCEPT !.saved = 1], 200)
    /\ UNCHANGED <<inventory_transactions, sales, nreq>>
    /\ UNCHANGED views

\* A delete that cascades to the journal entries of the medication (a
\* reverse_delete_rule=CASCADE on InventoryTransaction.medication).
DeleteMedicationCascade(w) ==
    /\ Accepting(w)
    /\ \E m \in MedIds :
          LET c == [NoCall EXCEPT !.op = "delete_medication", !.med = m]
          IN IF m \in medications
             THEN /\ medications' = medications \ {m}
                  /\ partial' = partial \ {m}
                  /\ noQuantity' = noQuantity \ {m}
                  /\ quantity_in_stock' = [quantity_in_stock EXCEPT ![m] = 0]
                  /\ supplied' = [supplied EXCEPT ![m] = 0]
                  /\ reorder_level' = [reorder_level EXCEPT ![m] = 0]
                  /\ inventory_transactions' =
                         SelectSeq(inventory_transactions, LAMBDA e : e.medication # m)
                  /\ UNCHANGED taken
                  /\ Respond(w, c, 200)
             ELSE /\ Respond(w, c, 404)
                  /\ UNCHANGED <<store, inventory_transactions>>
    /\ nreq' = nreq + 1
    /\ UNCHANGED sales
    /\ UNCHANGED views

\* DELETE /api/medications/<id>: the document goes, journal entries that
\* reference it stay.
DeleteMedication(w) ==
    /\ Accepting(w)
    /\ \E m \in MedIds :
          LET c == [NoCall EXCEPT !.op = "delete_medication", !.med = m]
          IN IF m \in medications
             THEN /\ medications' = medications \ {m}
                  /\ partial' = partial \ {m}
                  /\ noQuantity' = noQuantity \ {m}
                  /\ quantity_in_stock' = [quantity_in_stock EXCEPT ![m] = 0]
                  /\ supplied' = [supplied EXCEPT ![m] = 0]
                  /\ reorder_level' = [reorder_level EXCEPT ![m] = 0]
                  /\ UNCHANGED taken
                  /\ Respond(w, c, 200)
             ELSE /\ Respond(w, c, 404)
                  /\ UNCHANGED store
    /\ nreq' = nreq + 1
    /\ UNCHANGED <<inventory_transactions, sales>>
    /\ UNCHANGED views

(* ----------------------------- update_stock --------------------------- *)

InSale(c) == c.op = "create_sale"

\* The arguments of the update_stock call a handler is executing: its own
\* for a direct call, those create_sale passes for line item i
\* (CurChangeUnsigned: a create_sale that passes the sold quantity unnegated).
CurMed(c) == IF InSale(c) THEN c.items[c.i].medication ELSE c.med
CurChangeUnsigned(c) == IF InSale(c) THEN c.items[c.i].quantity ELSE c.arg
CurChange(c) == IF InSale(c) THEN 0 - c.items[c.i].quantity ELSE c.arg
CurType(c) == IF InSale(c) THEN "sale" ELSE c.ttype
CurRef(c) == IF InSale(c) THEN c.sale_id ELSE NoRef

\* The call record once update_stock has returned ok.
Returned(c, ok) == [c EXCEPT !.result = ok, !.failed = IF ok THEN @ ELSE @ + 1]

\* The status create_sale answers with after its loop over the line items:
\* the values update_stock returned are not looked at.
SaleStatus(c) == 201

\* update_stock returns ok. A direct caller gets the value; create_sale
\* goes on with the next line item and answers after the last one.
Return(w, c, ok) ==
    IF InSale(c)
    THEN IF c.i < Len(c.items)
         THEN Continue(w, [Returned(c, ok) EXCEPT !.i = @ + 1, !.pc = "us_read"])
         ELSE Respond(w, Returned(c, ok), SaleStatus(Returned(c, ok)))
    ELSE Respond(w, Returned(c, ok), IF ok THEN 200 ELSE 500)

\* A stock check that lets the stock go one below zero.
InsufficientOffByOne(new_quantity) == new_quantity < -1

\* The stock check of update_stock.
Insufficient(new_quantity) == new_quantity < 0

\* An update_stock that, on insufficient stock, clamps the new quantity to
\* zero and goes on to save instead of failing.
ReadStockClamped(w, c0) ==
    LET c == [c0 EXCEPT !.calls = @ + 1]
        m == CurMed(c)
        previous_quantity == quantity_in_stock[m]
        new_quantity == previous_quantity + CurChange(c)
    IN IF m \notin medications \/ m \in noQuantity
       THEN Return(w, c, FALSE)
       ELSE Continue(w, [c EXCEPT !.pc = "us_save_med",
                                  !.short = IF Insufficient(new_quantity) THEN @ + 1 ELSE @,
                                  !.previous_quantity = previous_quantity,
                                  !.new_quantity = IF Insufficient(new_quantity) THEN 0
                                                   ELSE new_quantity,
                                  !.rpartial = (m \in partial)])

\* An update_stock that skips the test of the query's result and goes on
\* with a quantity of zero for a medication it did not find.
ReadStockUnchecked(w, c0) ==
    LET c == [c0 EXCEPT !.calls = @ + 1]
        m == CurMed(c)
        previous_quantity == IF m \in Stocked THEN quantity_in_stock[m] ELSE 0
        new_quantity == previous_quantity + CurChange(c)
    IN IF Insufficient(new_quantity)
       THEN Return(w, [c EXCEPT !.short = @ + 1], FALSE)
       ELSE Continue(w, [c EXCEPT !.pc = "us_save_med",
                                  !.previous_quantity = previous_quantity,
                                  !.new_quantity = new_quantity,
                                  !.rpartial = (m \in partial)])

\* update_stock, the query and the check: an unknown medication (or one
\* whose document has no quantity, which raises) and an insufficient stock
\* return False; otherwise the call goes on to save the medication.
ReadStock(w, c0) ==
    LET c == [c0 EXCEPT !.calls = @ + 1]
        m == CurMed(c)
        previous_quantity == quantity_in_stock[m]
        new_quantity == previous_quantity + CurChange(c)
    IN IF m \notin medications \/ m \in noQuantity
       THEN Return(w, c, FALSE)
       ELSE IF Insufficient(new_quantity)
       THEN Return(w, [c EXCEPT !.short = @ + 1], FALSE)
       ELSE Continue(w, [c EXCEPT !.pc = "us_save_med",
                                  !.previous_quantity = previous_quantity,
                                  !.new_quantity = new_quantity,
                                  !.rpartial = (m \in partial)])

\* A direct call of MedicationRepository.update_stock, up to the check.
UpdateStockRead(w) ==
    /\ Accepting(w)
    /\ \E m \in MedIds, d \in Changes, tu \in CallerInputs :
          ReadStock(w, [NoCall EXCEPT !.op = "update_stock", !.med = m, !.arg = d,
                                      !.ttype = tu[1], !.uid_ok = tu[2]])
    /\ nreq' = nreq + 1
    /\ UNCHANGED <<store, inventory_transactions, sales>>
    /\ UNCHANGED views

\* A save that writes the change itself instead of the new quantity.
StoredQuantityChangeOnly(c) == CurChange(c)

\* The value medication.save() writes to quantity_in_stock.
StoredQuantity(c) == c.new_quantity

\* update_stock, medication.save().
UpdateStockSaveMedication(w) ==
    LET c == call[w] IN
    /\ c.pc = "us_save_med"
    /\ IF c.rpartial
       THEN /\ Return(w, c, FALSE)
            /\ UNCHANGED store
       ELSE /\ SaveQuantity(CurMed(c), c.new_quantity # c.previous_quantity,
                            StoredQuantity(c))
            /\ Continue(w, [c EXCEPT !.pc = "us_save_txn", !.saved = @ + 1])
    /\ UNCHANGED <<inventory_transactions, sales, nreq>>
    /\ UNCHANGED views

\* An InventoryTransaction whose previous_quantity is read back from the
\* medication after it has been saved.
EntryStalePrevious(c) ==
    [medication |-> CurMed(c), transaction_type |-> CurType(c),
     quantity_change |-> CurChange(c),
     previous_quantity |-> quantity_in_stock[CurMed(c)],
     new_quantity |-> c.new_quantity, reference_id |-> CurRef(c)]

\* The InventoryTransaction update_stock builds.
Entry(c) ==
    [medication |-> CurMed(c), transaction_type |-> CurType(c),
     quantity_change |-> CurChange(c), previous_quantity |-> c.previous_quantity,
     new_quantity |-> c.new_quantity, reference_id |-> CurRef(c)]

\* update_stock, InventoryTransaction(...).save(): ObjectId(user_id) raises
\* on a malformed id, save() on a transaction_type outside the choices.
UpdateStockSaveTransaction(w) ==
    LET c == call[w] IN
    /\ c.pc = "us_save_txn"
    /\ IF ~c.uid_ok \/ CurType(c) \notin TransactionTypes
       THEN /\ Return(w, c, FALSE)
            /\ UNCHANGED inventory_transactions
       ELSE /\ inventory_transactions' = Append(inventory_transactions, Entry(c))
            /\ Return(w, [c EXCEPT !.logged = @ + 1], TRUE)
    /\ UNCHANGED <<store, sales, nreq>>
    /\ UNCHANGED views

(* ------------------------------ create_sale --------------------------- *)

\* The bodies of a sale request: a valid one, one that lacks a required
\* field, one that repeats the invoice_number of a stored sale, and one the
\* Sale document does not validate (a negative total_amount, no subtotal).
SaleBodies == {"valid", "missing_field", "duplicate_invoice", "invalid"}

validate_required_fields(body) == body # "missing_field"

\* sale_repo.create returns (TRUE) or raises ValueError (FALSE): save()
\* validates the document, then inserts it under the unique index on
\* invoice_number (SaleCreatedAnyInvoice: a collection without that index).
SaleCreatedAnyInvoice(body) == body # "invalid"

SaleCreated(body) == body \notin {"duplicate_invoice", "invalid"}

\* The insert of the Sale (StoreSaleLater: a create that returns the id but
\* leaves the insert for later).
StoreSaleLater(id) == sales' = sales

StoreSale(id) == sales' = sales \cup {id}

\* POST /api/sales up to sale_repo.create. Only a body sent while a sale is
\* stored can repeat an invoice_number.
CreateSale(w) ==
    /\ Accepting(w)
    /\ \E its \in ItemLists, body \in SaleBodies :
          LET c == [NoCall EXCEPT !.op = "create_sale", !.items = its,
                                  !.sale_id = nreq + 1, !.body = body]
          IN /\ (body = "duplicate_invoice") => (sales # {})
             /\ IF ~validate_required_fields(body) \/ ~SaleCreated(body)
                THEN /\ Respond(w, [c EXCEPT !.items = <<>>, !.sale_id = 0], 400)
                     /\ UNCHANGED sales
                ELSE /\ StoreSale(nreq + 1)
                     /\ IF its = <<>>
                        THEN Respond(w, c, 201)
                        ELSE Continue(w, [c EXCEPT !.i = 1, !.pc = "us_read"])
    /\ nreq' = nreq + 1
    /\ UNCHANGED <<store, inventory_transactions>>
    /\ UNCHANGED views

\* create_sale, the update_stock call for line item i, up to the check.
SaleItemRead(w) ==
    /\ call[w].pc = "us_read"
    /\ ReadStock(w, call[w])
    /\ UNCHANGED <<store, inventory_transactions, sales, nreq>>
    /\ UNCHANGED views

(* ------------------------ listings and pagination -------------------- *)

\* No user, no listed document, no sale to report, no reply yet.
NoViews ==
    /\ users = <<>>
    /\ documents = 0
    /\ dated_sales = <<>>
    /\ reply = [endpoint |-> "none", status |-> 0, data |-> {}, page |-> 0,
                page_size |-> 0, total |-> 0, pages |-> 0]

\* The cap get_pagination_params puts on page_size, and the defaults of the
\* two query arguments.
PageSizeCap == 100
DefaultPage == 1
DefaultPageSize == 20

Min(a, b) == IF a < b THEN a ELSE b

\* get_pagination_params: the page and page_size handed to the repository
\* for the query arguments given (<<>>: the argument is missing or is not an
\* integer, and the default is taken; <<n>>: the integer n was given).
get_pagination_params(page_arg, page_size_arg) ==
    [page |-> IF page_arg = <<>> THEN DefaultPage ELSE page_arg[1],
     page_size |-> Min(IF page_size_arg = <<>> THEN DefaultPageSize
                       ELSE page_size_arg[1], PageSizeCap)]

\* get_all on a collection of total documents, a document being named by
\* its position in the collection's natural order: objects.skip(skip)
\* .limit(page_size) and the pagination block. A negative skip is refused by
\* the database driver and a page_size of zero divides by zero: both leave
\* the handler by an exception (status 500, nothing returned). A negative
\* page_size is not among the requests drawn.
SkipFromPage(page, page_size) == page * page_size

Skip(page, page_size) == (page - 1) * page_size

Raises(page, page_size) == Skip(page, page_size) < 0 \/ page_size = 0

\* The documents skip(skip).limit(page_size) yields.
PageData(total, page, page_size) ==
    (Skip(page, page_size) + 1) .. Min(Skip(page, page_size) + page_size, total)

\* (total + page_size - 1) // page_size
Pages(total, page_size) == (total + page_size - 1) \div page_size

NoReply ==
    [endpoint |-> "none", status |-> 0, data |-> {}, page |-> 0, page_size |-> 0,
     total |-> 0, pages |-> 0]

get_all(endpoint, total, page, page_size) ==
    IF Raises(page, page_size)
    THEN [NoReply EXCEPT !.endpoint = endpoint, !.status = 500,
                         !.page = page, !.page_size = page_size]
    ELSE [endpoint |-> endpoint, status |-> 200,
          data |-> PageData(total, page, page_size),
          page |-> page, page_size |-> page_size,
          total |-> total, pages |-> Pages(total, page_size)]

\* The largest number of medications in the listed collection.
MaxDocuments == 101

\* The page and page_size query arguments of the listing requests.
PageArgs == {<<>>, <<0>>, <<1>>, <<2>>, <<3>>}

PageSizeArgs == {<<>>, <<0>>, <<1>>, <<2>>, <<50>>, <<100>>, <<101>>}

\* GET /api/medications without a search term.
GetMedications ==
    /\ \E page_arg \in PageArgs, page_size_arg \in PageSizeArgs :
          LET a == get_pagination_params(page_arg, page_size_arg)
          IN reply' = get_all("get_medications", documents, a.page, a.page_size)
    /\ UNCHANGED <<users, documents, dated_sales, stock>>

\* The page_size load_inventory asks for; it names no page, so the client's
\* default page is sent.
InventoryPageSize == 100

ClientDefaultPage == 1

\* load_inventory of the dashboard: one get_medications request, and the rows
\* of the data frame are the records of that one response.
LoadInventory ==
    /\ LET a == get_pagination_params(<<ClientDefaultPage>>, <<InventoryPageSize>>)
           r == get_all("get_medications", documents, a.page, a.page_size)
       IN reply' = [r EXCEPT !.endpoint = "load_inventory"]
    /\ UNCHANGED <<users, documents, dated_sales, stock>>

(* -------------------------------- users ------------------------------- *)

\* Usernames of the requests; username is unique in the collection.
Usernames == {"ann", "bob", "cy"}

\* The fields of a stored User that BaseRepository._to_dict returns.
UserFields ==
    {"id", "username", "email", "password_hash", "role", "is_active",
     "created_at", "updated_at"}

\* _to_dict of the user document u: a record of all its stored fields.
ToDict(u) == [id |-> u, fields |-> UserFields]

\* dict.pop(field, None).
Pop(d, field) == [d EXCEPT !.fields = @ \ {field}]

\* The ids of the stored users.
UserIds == {users[i] : i \in 1..Len(users)}

\* GET /api/users: user_repo.get_all as it is, handed to jsonify.
GetUsers ==
    /\ \E page_arg \in {<<>>, <<2>>}, page_size_arg \in {<<>>, <<1>>} :
          LET a == get_pagination_params(page_arg, page_size_arg)
              r == get_all("get_users", Len(users), a.page, a.page_size)
          IN reply' = [r EXCEPT !.data = {ToDict(users[i]) : i \in r.data}]
    /\ UNCHANGED <<users, documents, dated_sales, stock>>

\* GET /api/users/<id>: get_by_id, then the pop of password_hash.
GetUser ==
    /\ \E u \in Usernames :
          reply' = IF u \in UserIds
                   THEN [NoReply EXCEPT !.endpoint = "get_user", !.status = 200,
                                        !.data = {Pop(ToDict(u), "password_hash")}]
                   ELSE [NoReply EXCEPT !.endpoint = "get_user", !.status = 404]
    /\ UNCHANGED <<users, documents, dated_sales, stock>>

\* POST /api/users: a body lacking a required field, or repeating a stored
\* username, is answered 400; otherwise the user is stored and returned
\* with password_hash popped.
CreateUser ==
    /\ \E u \in Usernames, complete \in BOOLEAN :
          IF complete /\ u \notin UserIds
          THEN /\ users' = Append(users, u)
               /\ reply' = [NoReply EXCEPT !.endpoint = "create_user", !.status = 201,
                                           !.data = {Pop(ToDict(u), "password_hash")}]
          ELSE /\ users' = users
               /\ reply' = [NoReply EXCEPT !.endpoint = "create_user", !.status = 400]
    /\ UNCHANGED <<documents, dated_sales, stock>>

(* --------------------------- sales reports --------------------------- *)

\* The most sales in the reported collection.
MaxSales == 2

\* A date is <<year, month, day>>; datetime(...) exists for the years
\* MinYear..MaxYear and raises ValueError for any other.
MinYear == 1
MaxYear == 9999

DatetimeRaises(year) == year < MinYear \/ year > MaxYear

\* a < b on datetimes of midnight.
Before(a, b) ==
    \/ a[1] < b[1]
    \/ a[1] = b[1] /\ a[2] < b[2]
    \/ a[1] = b[1] /\ a[2] = b[2] /\ a[3] < b[3]

\* The sale_date and total_amount of the sales drawn.
SaleDates == {<<y, m, d>> : y \in {2024, 2025}, m \in {1, 11, 12}, d \in {1, 28}}

DatedSales == [sale_date : SaleDates, total_amount : {1, 2}]

\* get_monthly_sales: the bounds of the month (EndDateSameYear: an end date
\* that stays in the year of the report).
StartDate(year, month) == <<year, month, 1>>

EndDateSameYear(year, month) == <<year, IF month = 12 THEN 1 ELSE month + 1, 1>>

EndDate(year, month) ==
    IF month = 12 THEN <<year + 1, 1, 1>> ELSE <<year, month + 1, 1>>

\* The $match stage: the sales with start_date <= sale_date < end_date.
Matched(year, month) ==
    {i \in 1..Len(dated_sales) :
        /\ ~Before(dated_sales[i].sale_date, StartDate(year, month))
        /\ Before(dated_sales[i].sale_date, EndDate(year, month))}

RECURSIVE SumAmounts(_)
SumAmounts(S) ==
    IF S = {} THEN 0
    ELSE LET i == CHOOSE j \in S : TRUE
         IN dated_sales[i].total_amount + SumAmounts(S \ {i})

\* The $group stage and the fallback for no result. average_sale, the
\* quotient total_sales / total_transactions, is kept as that pair.
get_monthly_sales(year, month) ==
    LET S == Matched(year, month)
    IN IF S = {}
       THEN [total_sales |-> 0, total_transactions |-> 0, average_sale |-> <<0, 1>>]
       ELSE [total_sales |-> SumAmounts(S), total_transactions |-> Cardinality(S),
             average_sale |-> <<SumAmounts(S), Cardinality(S)>>]

\* The year and month arguments of the report requests.
ReportYears == {0, 2024, 2025, 9999}

ReportMonths == 0..13

NoReport == [total_sales |-> 0, total_transactions |-> 0, average_sale |-> <<0, 1>>]

\* GET /api/sales/reports/monthly: 400 for a month outside 1..12; a
\* ValueError of datetime(...) is not caught and ends the request with 500.
GetMonthlySalesReport ==
    /\ \E year \in ReportYears, month \in ReportMonths :
          reply' =
             [endpoint |-> "get_monthly_sales_report", year |-> year, month |-> month,
              status |-> IF month < 1 \/ month > 12 THEN 400
                         ELSE IF DatetimeRaises(StartDate(year, month)[1])
                                 \/ DatetimeRaises(EndDate(year, month)[1])
                              THEN 500 ELSE 200,
              report |-> IF month < 1 \/ month > 12
                            \/ DatetimeRaises(StartDate(year, month)[1])
                            \/ DatetimeRaises(EndDate(year, month)[1])
                         THEN NoReport
                         ELSE get_monthly_sales(year, month)]
    /\ UNCHANGED <<users, documents, dated_sales, stock>>

(* ---------------------------- specification --------------------------- *)

\* The seeded database: one medication with any stock, or two medications
\* with one unit each; no journal entries.
Init ==
    /\ medications \in {{"m1"}, {"m1", "m2"}}
    /\ partial = {}
    /\ noQuantity = {}
    /\ quantity_in_stock \in [MedIds -> 0..MaxQty]
    /\ \A m \in MedIds \ medications : quantity_in_stock[m] = 0
    /\ "m2" \in medications => \A m \in MedIds : quantity_in_stock[m] = 1
    /\ taken = medications
    /\ supplied = quantity_in_stock
    /\ reorder_level = [m \in MedIds |-> IF m \in medications THEN 1 ELSE 0]
    /\ inventory_transactions = <<>>
    /\ sales = {}
    /\ call = [w \in Workers |-> NoCall]
    /\ nreq = 0
    /\ response = NoResponse
    /\ NoViews

Next ==
    \E w \in Workers :
        \/ CreateMedication(w)
        \/ UpdateMedicationRead(w)
        \/ UpdateMedicationSave(w)
        \/ DeleteMedication(w)
        \/ UpdateStockRead(w)
        \/ UpdateStockSaveMedication(w)
        \/ UpdateStockSaveTransaction(w)
        \/ CreateSale(w)
        \/ SaleItemRead(w)

Spec == Init /\ [][Next]_vars

\* The stock side at rest: an empty store, no request in progress.
AtRest ==
    /\ medications = {}
    /\ partial = {}
    /\ noQuantity = {}
    /\ quantity_in_stock = [m \in MedIds |-> 0]
    /\ taken = {}
    /\ supplied = [m \in MedIds |-> 0]
    /\ reorder_level = [m \in MedIds |-> 0]
    /\ inventory_transactions = <<>>
    /\ sales = {}
    /\ call = [w \in Workers |-> NoCall]
    /\ nreq = 0
    /\ response = NoResponse

\* The user endpoints on their own.
UserInit == AtRest /\ NoViews

UserNext == GetUsers \/ GetUser \/ CreateUser

UserSpec == UserInit /\ [][UserNext]_vars

\* The medication listing on its own, over a collection of any size up to
\* MaxDocuments.
ListingInit ==
    /\ AtRest
    /\ users = <<>>
    /\ documents \in 0..MaxDocuments
    /\ dated_sales = <<>>
    /\ reply = NoReply

ListingNext == GetMedications \/ LoadInventory

ListingSpec == ListingInit /\ [][ListingNext]_vars

\* The monthly report on its own, over up to MaxSales stored sales.
ReportInit ==
    /\ AtRest
    /\ users = <<>>
    /\ documents = 0
    /\ dated_sales \in UNION {[1..n -> DatedSales] : n \in 0..MaxSales}
    /\ reply = NoReply

ReportNext == GetMonthlySalesReport

ReportSpec == ReportInit /\ [][ReportNext]_vars

(* ------------------------------- claims ------------------------------- *)

\* The journal entries of medication m, in commit order.
History(m) == SelectSeq(inventory_transactions, LAMBDA e : e.medication = m)

RECURSIVE SumChanges(_)
SumChanges(h) == IF h = <<>> THEN 0 ELSE h[1].quantity_change + SumChanges(Tail(h))

\* Requests whose account is visible: those in progress and the one that
\* answered last.
StockRequests ==
    {r \in {call[w] : w \in Workers} \cup {response} : r.op \in {"update_stock", "create_sale"}}

AllIdle == \A w \in Workers : Idle(w)

\* C1: in every reachable state each medication's quantity_in_stock equals
\* the quantity supplied at its creation plus the sum of quantity_change over
\* its journal entries.
C1_QuantityIsSumOfChanges ==
    \A m \in Stocked : quantity_in_stock[m] = supplied[m] + SumChanges(History(m))

\* C2: in every reachable state, under every interleaving, every
\* medication's quantity_in_stock is >= 0 and every committed
\* InventoryTransaction has new_quantity >= 0.
C2_NeverNegative ==
    /\ \A m \in Stocked : quantity_in_stock[m] >= 0
    /\ \A n \in 1..Len(inventory_transactions) : inventory_transactions[n].new_quantity >= 0

\* Two deductions of one medication that both passed the check against the
\* same quantity read, the stock now at zero.
C2_Witness ==
    /\ Len(inventory_transactions) = 2
    /\ LET a == inventory_transactions[1]
           b == inventory_transactions[2]
       IN /\ a.medication = b.medication
          /\ a.previous_quantity = b.previous_quantity
          /\ a.quantity_change < 0 /\ b.quantity_change < 0
          /\ a.medication \in Stocked
          /\ quantity_in_stock[a.medication] = 0

\* C3: a sale one of whose line items found the stock insufficient has
\* changed no medication and appended no journal entry, for any of its
\* items.
C3_SaleAllOrNothing ==
    (response.op = "create_sale" /\ response.short > 0)
        => /\ response.saved = 0
           /\ response.logged = 0
           /\ \A n \in 1..Len(inventory_transactions) :
                 inventory_transactions[n].reference_id # response.sale_id

\* C4: when N requests have been served in all, every one of them a
\* successful update_stock(m, -1, 'sale') (the journal holds their N
\* entries), on a medication that started at quantity N, the quantity is 0.
C4_NoLostUpdates ==
    \A m \in MedIds :
        ( /\ nreq >= 1 /\ AllIdle
          /\ m \in Stocked /\ supplied[m] = nreq
          /\ Len(inventory_transactions) = nreq
          /\ \A n \in 1..nreq :
                LET e == inventory_transactions[n]
                IN /\ e.medication = m /\ e.quantity_change = -1
                   /\ e.transaction_type = "sale" /\ e.reference_id = NoRef )
        => quantity_in_stock[m] = 0

\* C5: in no reachable state has a request stored a new quantity_in_stock
\* without the InventoryTransaction that goes with it (or the reverse):
\* its medication saves and journal saves are equal in number.
C5_UpdateAndAppendTogether == \A r \in StockRequests : r.saved = r.logged

\* C6: an update_stock call that finds the stock insufficient
\* (previous_quantity + quantity_change < 0) fails and writes neither the
\* medication nor the journal: of the calls a request has made, those found
\* short all returned False, and none of them is among the saves.
C6_InsufficientStockWritesNothing ==
    \A r \in StockRequests :
        /\ r.short <= r.failed
        /\ r.saved + r.short <= r.calls
        /\ r.logged + r.short <= r.calls

\* A direct update_stock call has failed for insufficient stock on a
\* medication that has stock.
C6_Witness ==
    /\ response.op = "update_stock" /\ response.short = 1
    /\ ~response.result
    /\ \E m \in Stocked : quantity_in_stock[m] > 0

\* C7: an update_stock call that returned False has written nothing:
\* neither a medication save nor a journal save is its.
C7_FailedCallWritesNothing ==
    (response.op = "update_stock" /\ ~response.result)
        => (response.saved = 0 /\ response.logged = 0)

\* C8: a sale one of whose stock deductions failed is not answered 201 and
\* its Sale record is not stored.
C8_FailedDeductionFailsSale ==
    (response.op = "create_sale" /\ response.failed > 0)
        => (response.status # 201 /\ response.sale_id \notin sales)

\* C9: every committed InventoryTransaction has
\* new_quantity = previous_quantity + quantity_change.
C9_EntryArithmetic ==
    \A n \in 1..Len(inventory_transactions) :
        LET e == inventory_transactions[n]
        IN e.new_quantity = e.previous_quantity + e.quantity_change

\* The journal holds an increase followed by a decrease.
C9_Witness ==
    /\ Len(inventory_transactions) >= 2
    /\ inventory_transactions[1].quantity_change > 0
    /\ inventory_transactions[2].quantity_change < 0

\* C10: for each medication the journal entries chain in commit order: the
\* previous_quantity of an entry is the new_quantity of the entry before it.
C10_EntriesChain ==
    \A m \in MedIds :
        \A n \in 2..Len(History(m)) :
            History(m)[n].previous_quantity = History(m)[n - 1].new_quantity

\* C11: a direct update_stock(m, d, ...) call. The quantity it reads is the
\* stored one, q, and it goes on only with q + d >= 0; its medication.save()
\* on a medication still at q stores exactly q + d; and the step in which it
\* returns True appends exactly one InventoryTransaction, with
\* previous_quantity q, quantity_change d, new_quantity q + d, the given
\* transaction_type and reference_id, the call having saved the medication
\* once and the journal once.
C11_SuccessfulUpdateStock ==
    [][\A w \in Workers :
          LET c == call[w]
              n == call'[w]
          IN /\ (Idle(w) /\ n.op = "update_stock" /\ n.pc = "us_save_med")
                    => /\ n.med \in Stocked
                       /\ n.previous_quantity = quantity_in_stock[n.med]
                       /\ n.new_quantity = quantity_in_stock[n.med] + n.arg
                       /\ n.new_quantity >= 0
             /\ (/\ c.op = "update_stock" /\ c.pc = "us_save_med"
                 /\ n.pc = "us_save_txn"
                 /\ c.med \in Stocked
                 /\ quantity_in_stock[c.med] = c.previous_quantity)
                    => /\ c.med \in Stocked'
                       /\ quantity_in_stock'[c.med] = c.previous_quantity + c.arg
             /\ (/\ c.op = "update_stock" /\ c.pc = "us_save_txn"
                 /\ n.pc = "idle" /\ response'.result)
                    => /\ inventory_transactions' =
                              Append(inventory_transactions,
                                     [medication |-> c.med,
                                      transaction_type |-> c.ttype,
                                      quantity_change |-> c.arg,
                                      previous_quantity |-> c.previous_quantity,
                                      new_quantity |-> c.previous_quantity + c.arg,
                                      reference_id |-> NoRef])
                       /\ response'.calls = 1
                       /\ response'.saved = 1
                       /\ response'.logged = 1
      ]_vars

\* Two direct calls in a row have succeeded on one medication, an increase
\* and then a decrease of what the first left: the stock is what the second
\* entry says.
C11_Witness ==
    /\ AllIdle
    /\ response.op = "update_stock" /\ response.result
    /\ Len(inventory_transactions) = 2
    /\ LET a == inventory_transactions[1]
           b == inventory_transactions[2]
       IN /\ a.medication = b.medication
          /\ a.quantity_change = 2 /\ b.quantity_change = -1
          /\ b.previous_quantity = a.new_quantity
          /\ a.medication \in Stocked
          /\ quantity_in_stock[a.medication] = b.new_quantity

\* The journal entries whose reference_id is ref.
EntriesOf(ref) ==
    {n \in 1..Len(inventory_transactions) : inventory_transactions[n].reference_id = ref}

\* A step of handler w from record c to record n within a sale: the record
\* that holds the outcome of the update_stock call just finished.
Outcome(n) == IF n.pc = "idle" THEN response' ELSE n

\* C12 (each line item): within create_sale, the update_stock call for line
\* item i reads the stored quantity q of the item's medication and computes
\* q - quantity; its save on a medication still at q stores q - quantity; and
\* when it succeeds it appends exactly one entry for that medication, of type
\* 'sale', with quantity_change = -quantity and reference_id the id of the
\* stored Sale. The sale answers after one call per line item.
C12_LineItemStep ==
    \A w \in Workers :
        LET c == call[w]
            n == call'[w]
            item == c.items[c.i]
        IN (c.op = "create_sale" /\ c.pc # "idle" /\ n # c) =>
             /\ (c.pc = "us_read" /\ n.pc = "us_save_med")
                    => /\ item.medication \in Stocked
                       /\ n.previous_quantity = quantity_in_stock[item.medication]
                       /\ n.new_quantity = quantity_in_stock[item.medication] - item.quantity
                       /\ n.new_quantity >= 0
             /\ (/\ c.pc = "us_save_med" /\ n.pc = "us_save_txn"
                 /\ item.medication \in Stocked
                 /\ quantity_in_stock[item.medication] = c.previous_quantity)
                    => /\ item.medication \in Stocked'
                       /\ quantity_in_stock'[item.medication] =
                              c.previous_quantity - item.quantity
             /\ (c.pc = "us_save_txn" /\ Outcome(n).result)
                    => /\ c.sale_id \in sales
                       /\ inventory_transactions' =
                              Append(inventory_transactions,
                                     [medication |-> item.medication,
                                      transaction_type |-> "sale",
                                      quantity_change |-> 0 - item.quantity,
                                      previous_quantity |-> c.previous_quantity,
                                      new_quantity |-> c.previous_quantity - item.quantity,
                                      reference_id |-> c.sale_id])
             /\ (n.pc = "idle") => response'.calls = Len(c.items)

\* C12 (the whole sale): a sale all of whose k stock deductions succeeded
\* has appended exactly k entries that carry its id and saved a medication k
\* times; and when it is the only request served, every medication's quantity
\* has gone down by the total quantity sold of it.
C12_CompletedSale ==
    (response.op = "create_sale" /\ response.status = 201 /\ response.failed = 0)
        => /\ response.logged = response.calls
           /\ response.saved = response.calls
           /\ Cardinality(EntriesOf(response.sale_id)) = response.calls
           /\ (nreq = 1 /\ AllIdle)
                 => \A m \in Stocked :
                        quantity_in_stock[m] = supplied[m] + SumChanges(History(m))

InUpdateStock(w) == call[w].pc \in {"us_save_med", "us_save_txn"}

\* C13: the read-check-write-append steps of two calls on the same
\* medication never interleave: no two handlers are inside update_stock
\* on one medication at the same time.
C13_CallsDoNotInterleave ==
    \A v \in Workers, w \in Workers :
        (v # w /\ InUpdateStock(v) /\ InUpdateStock(w))
            => CurMed(call[v]) # CurMed(call[w])

\* C14: the quantity_in_stock of an existing medication changes only in a
\* step that is the medication.save() of an update_stock call on it: no
\* other step changes a stored quantity.
C14_OnlyUpdateStockWritesQuantity ==
    [][\A m \in Stocked :
          (m \in Stocked' /\ quantity_in_stock'[m] # quantity_in_stock[m])
              => \E w \in Workers :
                    /\ call[w].pc = "us_save_med"
                    /\ call'[w].pc = "us_save_txn"
                    /\ CurMed(call[w]) = m
      ]_vars

\* Handler w begins an update_stock call in this step: a direct call it
\* accepts, or the call for the next line item of its sale.
BeginsUpdateStock(w) ==
    \/ /\ Idle(w) /\ nreq' = nreq + 1
       /\ \/ call'[w].op = "update_stock"
          \/ call' = call /\ response'.op = "update_stock"
    \/ /\ call[w].pc = "us_read" /\ call'[w] # call[w]

\* C15: an update_stock call goes past its query only for a medication that
\* is stored; a call that does not go past it (as every call on a
\* medication_id that resolves to no medication) returns False, and the step
\* changes neither a medication nor the journal.
C15_UnknownMedicationFails ==
    [][\A w \in Workers :
          LET c == call[w]
              n == call'[w]
          IN BeginsUpdateStock(w) =>
               /\ UNCHANGED <<store, inventory_transactions>>
               /\ (n.pc = "us_save_med") => CurMed(n) \in medications
               /\ (n.pc # "us_save_med") =>
                     /\ ~Outcome(n).result
                     /\ Outcome(n).failed = c.failed + 1
                     /\ Outcome(n).saved = c.saved
                     /\ Outcome(n).logged = c.logged
      ]_vars

\* The only request served was a direct update_stock call on an id that
\* resolves to no medication (m2 was never created): it returned False
\* without finding the stock short, and nothing has changed.
C15_Witness ==
    /\ nreq = 1 /\ AllIdle
    /\ response.op = "update_stock" /\ ~response.result
    /\ response.calls = 1 /\ response.short = 0 /\ response.saved = 0
    /\ medications = {"m1"}
    /\ quantity_in_stock = supplied
    /\ inventory_transactions = <<>>

\* C16: a direct update_stock call with quantity_change = 0, or with a
\* transaction_type outside the declared choices, takes no step that changes
\* a quantity_in_stock or the journal, and does not return True.
C16_InvalidArgumentsRejected ==
    [][\A w \in Workers :
          LET c == call[w]
              n == call'[w]
          IN (/\ c.op = "update_stock" /\ n # c
              /\ (c.arg = 0 \/ c.ttype \notin TransactionTypes))
                => /\ UNCHANGED <<quantity_in_stock, inventory_transactions>>
                   /\ (n.pc = "idle") => ~response'.result
      ]_vars

(* ----------------------------- low stock ------------------------------ *)

\* Medication.is_low_stock on the document as MongoEngine loads it: a field
\* the stored document lacks takes its default (reorder_level 10,
\* quantity_in_stock None, on which the comparison raises: no answer).
is_low_stock(m) ==
    /\ m \in Stocked
    /\ quantity_in_stock[m] <=
           (IF m \in partial THEN DefaultReorderLevel ELSE reorder_level[m])

\* The $lte of the aggregation on the stored document: a missing field
\* orders before every number and equal to another missing field.
LteStoredFields(m) ==
    IF m \in noQuantity THEN TRUE
    ELSE IF m \in partial THEN FALSE
    ELSE quantity_in_stock[m] <= reorder_level[m]

\* MedicationRepository.get_low_stock: the ids of the documents returned.
get_low_stock == {m \in medications : LteStoredFields(m)}

\* C17: in every state the low-stock query returns exactly the medications
\* whose quantity_in_stock <= reorder_level, the same medications as the
\* model predicate Medication.is_low_stock selects.
C17_LowStockQueryMatchesPredicate ==
    get_low_stock = {m \in medications : is_low_stock(m)}

\* C18: the journal is append-only: every step leaves the committed entries
\* as they are, in place, and adds at most one entry after them.
C18_JournalAppendOnly ==
    [][/\ Len(inventory_transactions') \in
              {Len(inventory_transactions), Len(inventory_transactions) + 1}
       /\ SubSeq(inventory_transactions', 1, Len(inventory_transactions)) =
              inventory_transactions
      ]_vars

\* An entry was committed, and a later request has rewritten or deleted a
\* medication: the entry is still there.
C18_Witness ==
    /\ AllIdle /\ nreq = 2
    /\ Len(inventory_transactions) = 1
    /\ response.op \in {"update_medication", "delete_medication"}
    /\ response.status = 200

\* Medication b's document and journal entries are the same after the step
\* as before it.
Untouched(b) ==
    /\ (b \in medications') = (b \in medications)
    /\ (b \in partial') = (b \in partial)
    /\ (b \in noQuantity') = (b \in noQuantity)
    /\ quantity_in_stock'[b] = quantity_in_stock[b]
    /\ reorder_level'[b] = reorder_level[b]
    /\ SelectSeq(inventory_transactions', LAMBDA e : e.medication = b) = History(b)

\* C19 (effects): a step of an update_stock call on medication a, whether the
\* call goes on, succeeds or fails, leaves every other medication's
\* document and journal entries untouched.
C19_OtherMedicationsUntouched ==
    \A w \in Workers :
        /\ BeginsUpdateStock(w) => \A b \in MedIds : Untouched(b)
        /\ (InUpdateStock(w) /\ call'[w] # call[w])
              => \A b \in MedIds \ {CurMed(call[w])} : Untouched(b)

\* C19 (progress): a handler inside update_stock can always take its next
\* step; and while a handler is inside update_stock on medication a, another
\* one free to accept a request can begin a call on any other stored
\* medication b and get past the stock check whenever b's own stock covers
\* the change.
C19_NeverBlocked ==
    \A w \in Workers :
        /\ (call[w].pc = "us_read") => ENABLED SaleItemRead(w)
        /\ (call[w].pc = "us_save_med") => ENABLED UpdateStockSaveMedication(w)
        /\ (call[w].pc = "us_save_txn") => ENABLED UpdateStockSaveTransaction(w)
        /\ Accepting(w) =>
              \A v \in Workers \ {w} :
                  InUpdateStock(v) =>
                      \A b \in Stocked \ {CurMed(call[v])}, d \in Changes :
                          (quantity_in_stock[b] + d >= 0) =>
                              ENABLED (/\ UpdateStockRead(w)
                                       /\ call'[w].med = b
                                       /\ call'[w].arg = d
                                       /\ call'[w].pc = "us_save_med")

C19_MedicationsIndependent ==
    []C19_NeverBlocked /\ [][C19_OtherMedicationsUntouched]_vars

\* Two handlers are inside update_stock at once, on different medications,
\* each having saved a changed quantity of its own medication: each
\* medication holds what its own call wrote.
C19_Witness ==
    /\ \A w \in Workers : call[w].pc = "us_save_txn"
    /\ CurMed(call["w1"]) # CurMed(call["w2"])
    /\ \A w \in Workers :
          /\ CurChange(call[w]) # 0
          /\ CurMed(call[w]) \in Stocked
          /\ quantity_in_stock[CurMed(call[w])] = call[w].new_quantity

\* C20: in every reachable state the medication reference of every
\* InventoryTransaction resolves to a stored medication.
C20_EntriesReferToStoredMedications ==
    \A n \in 1..Len(inventory_transactions) :
        inventory_transactions[n].medication \in medications

\* C21: no response of a user endpoint (GET /api/users, GET /api/users/<id>,
\* POST /api/users) holds a user record with a password_hash.
C21_NoPasswordHashReturned ==
    (reply.endpoint \in {"get_users", "get_user", "create_user"})
        => \A d \in reply.data : "password_hash" \notin d.fields

\* C25: a listing of total documents with a page_size in 1..100 reports
\* pages = ceil(total / page_size); the page returned holds at most page_size
\* documents and none when it lies beyond pages; and the pages 1..pages hold
\* every document exactly once.
C25_PagesPartitionTheDocuments ==
    (/\ reply.endpoint = "get_medications"
     /\ reply.status = 200
     /\ reply.page_size \in 1..PageSizeCap)
        => /\ reply.total = documents
           /\ reply.pages * reply.page_size >= documents
           /\ (reply.pages - 1) * reply.page_size < documents
           /\ Cardinality(reply.data) <= reply.page_size
           /\ reply.page > reply.pages => reply.data = {}
           /\ \A d \in 1..documents :
                 Cardinality({p \in 1..reply.pages :
                     d \in PageData(documents, p, reply.page_size)}) = 1

\* The last page of several was asked for and is only partly filled.
C25_Witness ==
    /\ reply.endpoint = "get_medications"
    /\ reply.status = 200
    /\ reply.pages >= 2
    /\ reply.page = reply.pages
    /\ reply.data # {}
    /\ Cardinality(reply.data) < reply.page_size

\* C26: every listing request is served with page >= 1 and
\* 1 <= page_size <= 100.
C26_ParametersInRange ==
    (reply.endpoint = "get_medications")
        => /\ reply.page >= 1
           /\ reply.page_size \in 1..PageSizeCap

\* C27: load_inventory returns all the medications, whatever their number.
C27_LoadInventoryReturnsAll ==
    (reply.endpoint = "load_inventory") => reply.data = 1..documents

\* C22: in every reachable state, between the steps of a request as well,
\* a journal entry that carries a sale's reference_id refers to a stored Sale.
C22_SaleEntriesReferToStoredSales ==
    \A n \in 1..Len(inventory_transactions) :
        (inventory_transactions[n].reference_id # NoRef)
            => inventory_transactions[n].reference_id \in sales

\* A create_sale between two of its line items, the entry of the first
\* written.
C22_Witness ==
    \E w \in Workers :
        /\ call[w].op = "create_sale"
        /\ call[w].i = 2
        /\ EntriesOf(call[w].sale_id) # {}

\* The step takes a sale request whose body is rejected.
TakesRejectedSale ==
    /\ nreq' # nreq
    /\ \/ /\ call' = call
          /\ response'.op = "create_sale"
          /\ response'.body # "valid"
       \/ \E w \in Workers :
             /\ Idle(w)
             /\ call'[w].op = "create_sale"
             /\ call'[w].body # "valid"

\* C23: a sale request rejected before or at the creation of the Sale (a
\* required field missing, a repeated invoice_number, a Sale that does not
\* validate) is answered 400 at once and changes no collection.
C23_RejectedSaleChangesNothing ==
    [][TakesRejectedSale
          => /\ call' = call
             /\ response'.status = 400
             /\ UNCHANGED <<store, inventory_transactions, sales>>]_vars

\* A body that repeats a stored sale's invoice_number was answered 400.
C23_Witness ==
    /\ response.op = "create_sale"
    /\ response.body = "duplicate_invoice"
    /\ response.status = 400
    /\ sales # {}
    /\ inventory_transactions # <<>>

\* The step is an update_medication answered without a save attempt.
UpdateNotFound ==
    /\ nreq' # nreq
    /\ call' = call
    /\ response'.op = "update_medication"

\* The step is handler w's instance.save() in BaseRepository.update.
UpdateSaves(w) == call[w].pc = "um_save" /\ call'[w].pc = "idle"

\* C24: an update that does not succeed leaves the store unchanged: for an
\* id with no document it answers not found and writes nothing (and only
\* then: an update that goes on to save has read a stored document); new
\* values that fail validation (quantity_in_stock < 0) are answered with the
\* ValueError's 400 and the stored documents keep their values.
C24_FailedUpdateWritesNothing ==
    [][/\ UpdateNotFound
            => /\ response'.status = 404
               /\ UNCHANGED <<store, inventory_transactions>>
       /\ \A w \in Workers :
            /\ (Idle(w) /\ call'[w].op = "update_medication")
                  => call'[w].med \in medications
            /\ UpdateSaves(w)
                  => /\ (call[w].arg < MinQuantity) => (response'.status = 400)
                     /\ (response'.status # 200)
                           => UNCHANGED <<store, inventory_transactions>>]_vars

\* An update of a stored, complete medication was refused with 400.
C24_Witness ==
    /\ response.op = "update_medication"
    /\ response.status = 400
    /\ response.saved = 0
    /\ medications # {}
    /\ partial = {}
    /\ noQuantity = {}
    /\ nreq = 1

\* The quantity below which the dashboard calls an item low on stock.
DashboardLowStockQuantity == 50

\* The rows of the dashboard's low-stock views, inventory_data[Quantity < 50]:
\* a row whose document has no quantity compares False.
DashboardLowStock ==
    {m \in medications \ noQuantity : quantity_in_stock[m] < DashboardLowStockQuantity}

\* C28: the dashboard's low-stock views list exactly the medications whose
\* quantity is at or below their own reorder_level, the set the API's
\* low-stock query returns.
C28_DashboardLowStockMatchesQuery ==
    /\ DashboardLowStock = get_low_stock
    /\ DashboardLowStock =
          {m \in Stocked : m \notin partial /\ quantity_in_stock[m] <= reorder_level[m]}

\* The sales whose sale_date lies in month month of year year.
SalesOfMonth(year, month) ==
    {i \in 1..Len(dated_sales) :
        /\ dated_sales[i].sale_date[1] = year
        /\ dated_sales[i].sale_date[2] = month}

\* What a monthly report answered for a month in 1..12 must say.
ReportIsRight ==
    /\ reply.status = 200
    /\ reply.report.total_transactions =
          Cardinality(SalesOfMonth(reply.year, reply.month))
    /\ (SalesOfMonth(reply.year, reply.month) = {}) => (reply.report = NoReport)
    /\ (SalesOfMonth(reply.year, reply.month) # {})
          => reply.report.total_sales >= reply.report.total_transactions

\* C29: for every year and every month in 1..12 the monthly report counts
\* exactly the sales of that month (December running to 1 January of the
\* next year), so that each sale is counted in exactly one (year, month)
\* report; total_transactions is their number and a month without sales
\* yields zeros; a month outside 1..12 is answered 400.
C29_MonthlyReportsPartitionSales ==
    /\ (reply.endpoint = "get_monthly_sales_report")
          => IF reply.month \in 1..12 THEN ReportIsRight ELSE reply.status = 400
    /\ \A i \in 1..Len(dated_sales) :
          Cardinality({ym \in {2024, 2025} \X (1..12) :
                          i \in Matched(ym[1], ym[2])}) = 1

\* The same for the years whose months datetime can bound: 1..9998.
C29_WithinDatetimeRange ==
    (/\ reply.endpoint = "get_monthly_sales_report"
     /\ reply.year >= MinYear
     /\ reply.year < MaxYear)
        => C29_MonthlyReportsPartitionSales

====
